---- MODULE Spec2Model ----
(***************************************************************************)
(* State-machine model of the NES session controller of retro-arcade-web   *)
(* (src/src/emulators/nes/NesPlayer.jsx): run/pause frame loop driven by   *)
(* requestAnimationFrame, the audio sample queue, ROM loading, cold reset  *)
(* and the localStorage save-state manager.                                *)
(*                                                                         *)
(* All handlers run on one JavaScript thread, so each handler is one       *)
(* atomic action.  The asynchronous file read of loadRom splits it into    *)
(* LoadRom (up to the await) and LoadRomComplete (after it).  A display    *)
(* refresh is BeginRefresh (the browser takes the list of pending          *)
(* animation-frame callbacks) followed by one RafCallback per callback;    *)
(* no other handler runs in between.                                       *)
(***************************************************************************)
EXTENDS Integers, Sequences, FiniteSets, TLC

VARIABLES
    runningRef,        \* runningRef.current
    rafRef,            \* rafRef.current: 0 (null) or an animation-frame id
    rafPending,        \* browser: animation-frame callbacks scheduled
    rafFiring,         \* browser: callbacks of the refresh now being run
    tickFrames,        \* history: frames the loop advanced so far in the
                       \* refresh being run (0 outside a refresh)
    nesRef,            \* nesRef.current: the engine instance
    romBinRef,         \* romBinRef.current: None or the ROM binary string
    romNameRef,        \* romNameRef.current
    romKeyRef,         \* romKeyRef.current
    audioCtxRef,       \* audioCtxRef.current
    audioNodeRef,      \* audioNodeRef.current
    connectedNodes,    \* browser: script nodes connected to the destination
    audioQRef,         \* audioQRef.current: interleaved L,R samples
    autosaveTimerRef,  \* autosaveTimerRef.current: 0 (null) or interval id
    intervals,         \* browser: active setInterval timers
    store,             \* localStorage, restricted to the save-state keys
    status,            \* React state: status
    loadedName,        \* React state: loadedName
    hasSave,           \* React state: hasSave
    pendingReads,      \* files whose arrayBuffer() read is in flight
    phase,             \* "mounted", or "unmounted" once the cleanup ran
    audioSupported,    \* environment: window.AudioContext exists
    halted,            \* history: "wasRunning" / "wasStopped" after a stop()
                       \* call, by what it found; "resumed" once play()
                       \* restarts a loop that was stopped while running,
                       \* until the next display refresh; "no" otherwise
    produced,          \* history: sample pairs produced (audio specification)
    pulled,            \* history: device pulls so far (audio specification)
    adapter            \* one call of press / exportState / importState on an
                       \* engine build (adapter specification)

vars == <<runningRef, rafRef, rafPending, rafFiring, tickFrames, nesRef,
          romBinRef, romNameRef, romKeyRef, audioCtxRef, audioNodeRef,
          connectedNodes, audioQRef, autosaveTimerRef, intervals, store,
          status, loadedName, hasSave, pendingReads, phase,
          audioSupported, halted, produced, pulled, adapter>>

loopVars  == <<runningRef, rafRef, rafPending>>
romVars   == <<romBinRef, romNameRef, romKeyRef>>
audioDev  == <<audioCtxRef, audioNodeRef, connectedNodes>>
timerVars == <<autosaveTimerRef, intervals>>
saveUi    == <<hasSave>>
audioHist == <<produced, pulled>>

\* Every variable of the program (the history variables left out).
SessionVars ==
    <<runningRef, rafRef, rafPending, rafFiring, nesRef, romBinRef,
      romNameRef, romKeyRef, audioCtxRef, audioNodeRef, connectedNodes,
      audioQRef, autosaveTimerRef, intervals, store, status, loadedName,
      hasSave, pendingReads, phase>>

NULL == "null"

\* A nullable binary string, key or record: None, or Some(v).
None == <<>>
Some(v) == <<v>>
Get(o) == o[1]

----------------------------------------------------------------------------
(* Bounds of the model *)

\* 44100 in the source (samples per second); scaled down.
SampleRate == 2
\* 1024 in the source (frames per device callback); scaled down.
bufferSize == 1
\* Most sample pairs the engine emits during one frame().
MaxPairsPerFrame == 1
\* Most frames one engine instance is advanced.
MaxSt == 2
\* Animation-frame ids and interval ids the browser hands out.
MaxHandles == 3
\* Device pulls followed in the audio specification.
MaxPulls == 3

(* Program constants *)
SAVE_VERSION == 1
HashPrefixLen == 20000

----------------------------------------------------------------------------
(* Files the user can pick: name (characters) and bytes *)

Files == {"A", "X", "T"}

FileName(f) ==
    CASE f = "A" -> <<"a", ".", "n", "e", "s">>
      [] f = "X" -> <<"x", ".", "N", "E", "S">>
      [] f = "T" -> <<"t", "n", "e", "s">>

\* "NES\x1a" is 78 69 83 26.
FileBytes(f) ==
    CASE f = "A" -> <<78, 69, 83, 26, 1>>
      [] f = "X" -> <<0, 7>>
      [] f = "T" -> <<78, 69, 83, 26, 3>>

EmptyName == <<>>

LowerChar(c) ==
    CASE c = "N" -> "n"
      [] c = "E" -> "e"
      [] c = "S" -> "s"
      [] OTHER -> c

toLowerCase(s) == [i \in 1..Len(s) |-> LowerChar(s[i])]

\* endsWith comparing all but the first character of the suffix.
endsWithNoDot(s, suf) ==
    /\ Len(s) >= Len(suf) - 1
    /\ SubSeq(s, Len(s) - Len(suf) + 2, Len(s)) = Tail(suf)

endsWith(s, suf) ==
    /\ Len(s) >= Len(suf)
    /\ SubSeq(s, Len(s) - Len(suf) + 1, Len(s)) = suf

DotNes == <<".", "n", "e", "s">>

IsNesName(name) == endsWith(toLowerCase(name), DotNes)

----------------------------------------------------------------------------
(* djb2Hash on 32-bit integers, and the ROM identity key *)

\* A 32-bit integer is kept as <<high 16 bits, low 16 bits>>.
Half == 65536

RECURSIVE XorBits(_, _, _)
XorBits(a, b, n) ==
    IF n = 0 THEN 0
    ELSE (IF (a % 2) # (b % 2) THEN 1 ELSE 0)
         + 2 * XorBits(a \div 2, b \div 2, n - 1)

\* ((h << 5) + h) ^ c on int32, c a char code below 65536.
Djb2Step(h, c) ==
    LET lo33 == h[2] * 33
        hi33 == h[1] * 33 + (lo33 \div Half)
    IN  <<hi33 % Half, XorBits(lo33 % Half, c, 16)>>

RECURSIVE Djb2From(_, _, _)
Djb2From(h, str, i) ==
    IF i > Len(str) THEN h
    ELSE Djb2From(Djb2Step(h, str[i]), str, i + 1)

\* h = 5381; the result (h >>> 0) as its two halves.
djb2Hash(str) == Djb2From(<<0, 5381>>, str, 1)

slice(str, n) == SubSeq(str, 1, IF Len(str) < n THEN Len(str) ELSE n)

RomKey(name, bin) == <<name, Len(bin), djb2Hash(slice(bin, HashPrefixLen))>>

NesFiles == {f \in Files : IsNesName(FileName(f))}

\* The key loadRom computes for each file (computed once).
KeyOfFile == [f \in Files |-> RomKey(FileName(f), FileBytes(f))]

RomKeys == {KeyOfFile[f] : f \in NesFiles}

StorageKey(romKey) == <<"savestate", SAVE_VERSION, romKey>>

StoreKeys == {StorageKey(k) : k \in RomKeys}

----------------------------------------------------------------------------
(* The emulation engine (jsnes), an external collaborator.  Its machine    *)
(* state is abstracted to the ROM it runs and the number of frames it has  *)
(* advanced; it is deterministic, so two engines with the same rom and st  *)
(* render the same frames from then on.                                    *)

\* createNES(): a new instance, no ROM loaded.
createNES(id) == [id |-> id, rom |-> None, st |-> 0]

\* nes.loadROM(bin) throws unless bin starts with the iNES signature.
RomValid(bin) == Len(bin) >= 4 /\ SubSeq(bin, 1, 4) = <<78, 69, 83, 26>>

EngineLoadROM(n, bin) == [n EXCEPT !.rom = bin, !.st = 0]

\* toJSON() / fromJSON(): the snapshot of the machine state.
EngineToJSON(n) == [rom |-> n.rom, st |-> n.st, ok |-> TRUE]

EngineFromJSON(n, blob) == [n EXCEPT !.st = blob.st]

\* A state payload the engine rejects on import.
BadBlob == [rom |-> None, st |-> 0, ok |-> FALSE]

----------------------------------------------------------------------------
(* Audio sample queue.  A sample is <<source, channel>>. *)

max == SampleRate * 2

\* onAudioSample cutting the queue at its tail.
onAudioSampleDropNewest(q, l, r) ==
    LET q2 == q \o <<l, r>>
    IN  IF Len(q2) > max THEN SubSeq(q2, 1, max) ELSE q2

\* onAudioSample with a cap of an odd number of samples.
onAudioSampleOddCap(q, l, r) ==
    LET q2 == q \o <<l, r>>
    IN  IF Len(q2) > max - 1
        THEN SubSeq(q2, (Len(q2) - (max - 1)) + 1, Len(q2))
        ELSE q2

onAudioSample(q, l, r) ==
    LET q2 == q \o <<l, r>>
    IN  IF Len(q2) > max
        THEN SubSeq(q2, (Len(q2) - max) + 1, Len(q2))
        ELSE q2

RECURSIVE EmitPairs(_, _, _)
EmitPairs(q, src, k) ==
    IF k = 0 THEN q
    ELSE EmitPairs(onAudioSample(q, <<src, "L">>, <<src, "R">>), src, k - 1)

Silence == <<0, "S">>

\* A device callback that copies the queued pairs out and leaves them queued.
onaudioprocessPeek(q, n) ==
    [q |-> q,
     outL |-> [i \in 1..n |-> IF 2 * i <= Len(q) THEN q[2 * i - 1]
                              ELSE Silence],
     outR |-> [i \in 1..n |-> IF 2 * i <= Len(q) THEN q[2 * i]
                              ELSE Silence]]

\* onaudioprocess: n output frames taken from q.
RECURSIVE onaudioprocess(_, _)
onaudioprocess(q, n) ==
    IF n = 0 THEN [q |-> q, outL |-> <<>>, outR |-> <<>>]
    ELSE IF Len(q) >= 2
         THEN LET rest == onaudioprocess(SubSeq(q, 3, Len(q)), n - 1)
              IN  [q |-> rest.q,
                   outL |-> <<q[1]>> \o rest.outL,
                   outR |-> <<q[2]>> \o rest.outR]
         ELSE LET rest == onaudioprocess(q, n - 1)
              IN  [q |-> rest.q,
                   outL |-> <<Silence>> \o rest.outL,
                   outR |-> <<Silence>> \o rest.outR]

\* nes.frame(): an engine with a ROM advances one frame and emits k sample
\* pairs through onAudioSample; an engine without a ROM does nothing useful
\* and may throw.
EngineFrame(n, q, k, thr) ==
    IF n.rom # None
    THEN [nes |-> [n EXCEPT !.st = @ + 1], q |-> EmitPairs(q, n.id, k),
          threw |-> FALSE]
    ELSE [nes |-> n, q |-> q, threw |-> thr]

\* drawOneFrame calling frame() twice.
drawTwoFrames(n, q, k) ==
    LET r1 == EngineFrame(n, q, k, TRUE)
        r2 == EngineFrame(r1.nes, r1.q, k, TRUE)
    IN  [nes |-> r2.nes, q |-> r2.q]

\* drawOneFrame(): frame() with the exception swallowed.
drawOneFrame(n, q, k) ==
    LET r == EngineFrame(n, q, k, TRUE) IN [nes |-> r.nes, q |-> r.q]

MaxIds == (max \div 2) + 2

UsedIds == {nesRef.id} \cup {audioQRef[i][1] : i \in 1..Len(audioQRef)}

\* The engine object used again instead of a new one.
ReusedEngineId == nesRef.id

\* new jsnes.NES(...): an object distinct from every live one.
FreshEngineId ==
    CHOOSE i \in 1..MaxIds :
        /\ i \notin UsedIds
        /\ \A j \in 1..(i - 1) : j \in UsedIds

----------------------------------------------------------------------------
(* Browser handles: animation-frame ids and interval ids *)

Smallest(S) == CHOOSE i \in S : \A j \in S : i <= j

\* Ids free for requestAnimationFrame while callback id runs (0: none runs).
\* An id names a registration; the id of a callback that has run or of a
\* cleared timer names nothing and is used again.
FreeRaf(id) == (1..MaxHandles) \ (rafPending \cup (rafFiring \ {id}))

FreeInterval(active) == (1..MaxHandles) \ active

\* React drops state updates of an unmounted component.
SetState(cur, v) == IF phase = "mounted" THEN v ELSE cur

\* No handler runs while the callbacks of a display refresh are being run.
Quiet == rafFiring = {}

----------------------------------------------------------------------------
(* Frame loop *)

\* What a handler that calls stop() leaves in the history variable.
Halted == IF runningRef THEN "wasRunning" ELSE "wasStopped"

\* stop() leaving the loop as it is.
stopLeavesLoop == UNCHANGED <<runningRef, rafRef, rafPending>>

\* stop() without the cancelAnimationFrame call.
stopNoCancel ==
    /\ runningRef' = FALSE
    /\ rafRef' = 0
    /\ UNCHANGED rafPending

\* stop()
stop ==
    /\ runningRef' = FALSE
    /\ rafPending' = IF rafRef # 0 THEN rafPending \ {rafRef} ELSE rafPending
    /\ rafRef' = 0

\* ensureAudio() without the early return on an existing context.
ensureAudioNoCheck ==
    IF ~audioSupported
    THEN [ctx |-> NULL, node |-> audioNodeRef,
          connected |-> connectedNodes, status |-> "AudioNotSupported"]
    ELSE [ctx |-> "ctx", node |-> "node",
          connected |-> connectedNodes + 1, status |-> status]

\* ensureAudio(): the refs, the connected nodes and the status it leaves.
ensureAudio ==
    IF audioCtxRef # NULL
    THEN [ctx |-> audioCtxRef, node |-> audioNodeRef,
          connected |-> connectedNodes, status |-> status]
    ELSE IF ~audioSupported
         THEN [ctx |-> NULL, node |-> audioNodeRef,
               connected |-> connectedNodes, status |-> "AudioNotSupported"]
         ELSE [ctx |-> "ctx", node |-> "node",
               connected |-> connectedNodes + 1, status |-> status]

\* play() without the test of runningRef.
playNoRunningCheck ==
    IF loadedName = EmptyName
    THEN /\ status' = "LoadRomFirst"
         /\ UNCHANGED <<loopVars, audioDev, halted>>
    ELSE LET a == ensureAudio IN
         /\ audioCtxRef' = a.ctx
         /\ audioNodeRef' = a.node
         /\ connectedNodes' = a.connected
         /\ FreeRaf(0) # {}
         /\ runningRef' = TRUE
         /\ status' = "Playing"
         /\ rafRef' = Smallest(FreeRaf(0))
         /\ rafPending' = rafPending \cup {Smallest(FreeRaf(0))}
         /\ halted' = IF halted = "wasRunning" THEN "resumed" ELSE "no"

\* play()
play ==
    IF loadedName = EmptyName
    THEN /\ status' = "LoadRomFirst"
         /\ UNCHANGED <<loopVars, audioDev, halted>>
    ELSE LET a == ensureAudio IN
         /\ audioCtxRef' = a.ctx
         /\ audioNodeRef' = a.node
         /\ connectedNodes' = a.connected
         /\ IF runningRef
            THEN /\ status' = a.status
                 /\ UNCHANGED <<loopVars, halted>>
            ELSE /\ FreeRaf(0) # {}
                 /\ runningRef' = TRUE
                 /\ status' = "Playing"
                 /\ rafRef' = Smallest(FreeRaf(0))
                 /\ rafPending' = rafPending \cup {Smallest(FreeRaf(0))}
                 /\ halted' = IF halted = "wasRunning" THEN "resumed"
                              ELSE "no"

Play ==
    /\ Quiet /\ phase = "mounted"
    /\ play
    /\ UNCHANGED <<rafFiring, tickFrames, nesRef, romVars, audioQRef,
                   timerVars, store, loadedName, saveUi, pendingReads, phase,
                   audioSupported, audioHist,
                   adapter>>

\* A Pause button that also empties the audio queue.
PauseClearsQueue ==
    /\ Quiet /\ phase = "mounted"
    /\ stop
    /\ halted' = Halted
    /\ audioQRef' = <<>>
    /\ UNCHANGED <<rafFiring, tickFrames, nesRef, romVars, audioDev,
                   timerVars, store, status, loadedName, saveUi, pendingReads,
                   phase, audioSupported, audioHist,
                   adapter>>

\* The Pause button: onClick={stop}
Pause ==
    /\ Quiet /\ phase = "mounted"
    /\ stop
    /\ halted' = Halted
    /\ UNCHANGED <<rafFiring, tickFrames, nesRef, romVars, audioDev, audioQRef,
                   timerVars, store, status, loadedName, saveUi, pendingReads,
                   phase, audioSupported, audioHist,
                   adapter>>

\* A display refresh: the browser takes the scheduled callbacks to run them.
BeginRefresh ==
    /\ Quiet
    /\ rafPending # {}
    /\ (runningRef /\ nesRef.rom # None)
          => nesRef.st + Cardinality(rafPending) <= MaxSt
    /\ rafFiring' = rafPending
    /\ rafPending' = {}
    /\ tickFrames' = 0
    /\ halted' = IF halted = "resumed" THEN "no" ELSE halted
    /\ UNCHANGED <<runningRef, rafRef, nesRef, romVars, audioDev, audioQRef,
                   timerVars, store, status, loadedName, saveUi, pendingReads,
                   phase, audioSupported, audioHist,
                   adapter>>

\* loop(), run as the animation-frame callback id.
loop(id, k, thr) ==
    IF ~runningRef
    THEN /\ tickFrames' = IF rafFiring = {id} THEN 0 ELSE tickFrames
         /\ UNCHANGED <<rafRef, rafPending, nesRef, audioQRef>>
    ELSE LET r == EngineFrame(nesRef, audioQRef, k, thr) IN
         /\ nesRef' = r.nes
         /\ audioQRef' = r.q
         /\ tickFrames' = IF rafFiring = {id} THEN 0
                          ELSE IF r.nes # nesRef THEN tickFrames + 1
                          ELSE tickFrames
         /\ IF r.threw
            THEN /\ UNCHANGED <<rafRef, rafPending>>
            ELSE /\ FreeRaf(id) # {}
                 /\ rafRef' = Smallest(FreeRaf(id))
                 /\ rafPending' = rafPending \cup {Smallest(FreeRaf(id))}

RafCallback ==
    /\ rafFiring # {}
    /\ LET id == Smallest(rafFiring) IN
       /\ rafFiring' = rafFiring \ {id}
       /\ \E k \in 0..MaxPairsPerFrame, thr \in BOOLEAN :
             /\ (nesRef.rom = None \/ ~runningRef) => k = 0
             /\ (nesRef.rom # None \/ ~runningRef) => thr
             /\ loop(id, k, thr)
    /\ UNCHANGED <<runningRef, romVars, audioDev, timerVars, store, status,
                   loadedName, saveUi, pendingReads, phase, audioSupported,
                   halted, audioHist,
                   adapter>>

----------------------------------------------------------------------------
(* Save-state records.  A stored value is a string: JSON text of a value,  *)
(* or text that does not parse.                                            *)

JSONstringify(v) == [json |-> TRUE, value |-> Some(v)]

Garbage == [json |-> FALSE, value |-> None]

\* JSON.parse: throws (ok = FALSE) on text that is not JSON.
JSONparse(raw) == [ok |-> raw.json, value |-> raw.value]

Envelope(version, name, key, state) ==
    [meta |-> Some([version |-> version, romName |-> name, romKey |-> key]),
     state |-> Some(state)]

\* getSaveStorageKey()
getSaveStorageKey ==
    IF romKeyRef = None THEN None ELSE StorageKey(romKeyRef)

\* exportState(nesInstance)
exportState(n) == EngineToJSON(n)

\* importState that imports nothing.
importStateIgnored(n, state) == [threw |-> ~state.ok, nes |-> n]

\* importState(nesInstance, state): the engine after the import, or a throw.
importState(n, state) ==
    IF state.ok
    THEN [threw |-> FALSE, nes |-> EngineFromJSON(n, state)]
    ELSE [threw |-> TRUE, nes |-> n]

\* refreshSaveIndicators(): the hasSave it sets (lastSavedAt, shown beside
\* it, is left out of the model).
refreshSaveIndicators(key) ==
    ~(key = None \/ store[key] = None \/ ~JSONparse(Get(store[key])).ok)

\* A save whose result does not depend on a ROM key being bound.
saveResultIgnoresKey(exportOk, writeOk) ==
    [returns |-> exportOk /\ writeOk, threw |-> FALSE]

\* What saveStateToLocalStorage gives its caller: the value it returns, and
\* whether an exception leaves it (the try covers export and write).
saveResult(exportOk, writeOk) ==
    [returns |-> getSaveStorageKey # None /\ exportOk /\ writeOk,
     threw |-> FALSE]

\* A save that reports its failure in the status line even when silent.
saveStateToLocalStorageLoud(silent, exportOk, writeOk) ==
    LET key == getSaveStorageKey IN
    IF key = None
    THEN /\ status' = IF silent THEN status ELSE "LoadRomBeforeSaving"
         /\ UNCHANGED <<store, saveUi>>
    ELSE IF exportOk /\ writeOk
         THEN /\ store' = [store EXCEPT ![key] = Some(
                     JSONstringify(Envelope(SAVE_VERSION, romNameRef,
                                            romKeyRef, exportState(nesRef))))]
              /\ hasSave' = SetState(hasSave, TRUE)
              /\ status' = IF silent THEN status ELSE "Saved"
         ELSE /\ status' = "SaveFailed"
              /\ UNCHANGED <<store, saveUi>>

\* saveStateToLocalStorage({silent}); exportOk: exportState returns;
\* writeOk: localStorage.setItem succeeds.
saveStateToLocalStorage(silent, exportOk, writeOk) ==
    LET key == getSaveStorageKey IN
    IF key = None
    THEN /\ status' = IF silent THEN status ELSE "LoadRomBeforeSaving"
         /\ UNCHANGED <<store, saveUi>>
    ELSE IF exportOk /\ writeOk
         THEN /\ store' = [store EXCEPT ![key] = Some(
                     JSONstringify(Envelope(SAVE_VERSION, romNameRef,
                                            romKeyRef, exportState(nesRef))))]
              /\ hasSave' = SetState(hasSave, TRUE)
              /\ status' = IF silent THEN status ELSE "Saved"
         ELSE /\ status' = IF silent THEN status ELSE "SaveFailed"
              /\ UNCHANGED <<store, saveUi>>

\* The Save State button (disabled while no ROM name is shown).
SaveState ==
    /\ Quiet /\ phase = "mounted"
    /\ loadedName # EmptyName
    /\ \E exportOk \in BOOLEAN, writeOk \in BOOLEAN :
          saveStateToLocalStorage(FALSE, exportOk, writeOk)
    /\ UNCHANGED <<loopVars, rafFiring, tickFrames, nesRef, romVars, audioDev,
                   audioQRef, timerVars, loadedName, pendingReads, phase,
                   audioSupported, halted, audioHist,
                   adapter>>

\* loadStateFromLocalStorage()
loadStateFromLocalStorage(k) ==
    LET key == getSaveStorageKey
        raw == store[key]
        payload == JSONparse(Get(raw))
        fresh == EngineLoadROM(createNES(FreshEngineId), romBinRef)
        imp == importState(fresh, Get(Get(payload.value).state))
        one == drawOneFrame(imp.nes, <<>>, k)
    IN
    IF key = None
    THEN /\ status' = "LoadRomBeforeLoading"
         /\ UNCHANGED <<loopVars, nesRef, audioQRef, halted>>
    ELSE IF raw = None
    THEN /\ status' = "NoSaveFound"
         /\ UNCHANGED <<loopVars, nesRef, audioQRef, halted>>
    ELSE IF ~payload.ok
    THEN /\ status' = "LoadFailed"
         /\ UNCHANGED <<loopVars, nesRef, audioQRef, halted>>
    ELSE IF Get(payload.value).state = None
    THEN /\ status' = "SaveInvalid"
         /\ UNCHANGED <<loopVars, nesRef, audioQRef, halted>>
    ELSE /\ stop
         /\ halted' = Halted
         /\ IF ~RomValid(romBinRef) \/ imp.threw
            THEN /\ status' = "LoadFailed"
                 /\ UNCHANGED <<nesRef, audioQRef>>
            ELSE /\ nesRef' = one.nes
                 /\ audioQRef' = one.q
                 /\ status' = "LoadedSave"

\* The Load Save button (disabled while no ROM name or no save is shown).
LoadState ==
    /\ Quiet /\ phase = "mounted"
    /\ loadedName # EmptyName /\ hasSave
    /\ LET raw == store[getSaveStorageKey] IN
         (/\ getSaveStorageKey # None /\ raw # None /\ Get(raw).json
          /\ Get(Get(raw).value).state # None
          /\ Get(Get(Get(raw).value).state).ok)
            => Get(Get(Get(raw).value).state).st < MaxSt
    /\ \E k \in 0..MaxPairsPerFrame : loadStateFromLocalStorage(k)
    /\ UNCHANGED <<rafFiring, tickFrames, romVars, audioDev, timerVars, store,
                   loadedName, saveUi, pendingReads, phase, audioSupported,
                   audioHist,
                   adapter>>

\* A delete that empties the whole store.
deleteStateClearsStore ==
    IF getSaveStorageKey = None
    THEN UNCHANGED <<store, saveUi, status>>
    ELSE /\ store' = [key \in DOMAIN store |-> None]
         /\ hasSave' = FALSE
         /\ status' = "Deleted"

\* deleteStateFromLocalStorage()
deleteStateFromLocalStorage ==
    IF getSaveStorageKey = None
    THEN UNCHANGED <<store, saveUi, status>>
    ELSE /\ store' = [store EXCEPT ![getSaveStorageKey] = None]
         /\ hasSave' = FALSE
         /\ status' = "Deleted"

\* The Delete Save button (disabled while no ROM name or no save is shown).
DeleteState ==
    /\ Quiet /\ phase = "mounted"
    /\ loadedName # EmptyName /\ hasSave
    /\ deleteStateFromLocalStorage
    /\ UNCHANGED <<loopVars, rafFiring, tickFrames, nesRef, romVars, audioDev,
                   audioQRef, timerVars, loadedName, pendingReads, phase,
                   audioSupported, halted, audioHist,
                   adapter>>

----------------------------------------------------------------------------
(* Autosave timer *)

\* stopAutosaveTimer(): the timers left active.
stopAutosaveTimer ==
    IF autosaveTimerRef # 0 THEN intervals \ {autosaveTimerRef} ELSE intervals

\* A timer start that leaves the previous interval running.
startAutosaveTimerNoStop ==
    /\ FreeInterval(intervals) # {}
    /\ autosaveTimerRef' = Smallest(FreeInterval(intervals))
    /\ intervals' = intervals \cup {Smallest(FreeInterval(intervals))}

\* startAutosaveTimer()
startAutosaveTimer ==
    /\ FreeInterval(stopAutosaveTimer) # {}
    /\ autosaveTimerRef' = Smallest(FreeInterval(stopAutosaveTimer))
    /\ intervals' = stopAutosaveTimer
                     \cup {Smallest(FreeInterval(stopAutosaveTimer))}

\* The interval callback registered by startAutosaveTimer().
AutosaveTick ==
    /\ Quiet
    /\ \E id \in intervals :
          IF romBinRef # None /\ romKeyRef # None
          THEN \E exportOk \in BOOLEAN, writeOk \in BOOLEAN :
                  saveStateToLocalStorage(TRUE, exportOk, writeOk)
          ELSE /\ UNCHANGED <<store, saveUi, status>>
    /\ UNCHANGED <<loopVars, rafFiring, tickFrames, nesRef, romVars, audioDev,
                   audioQRef, timerVars, loadedName, pendingReads, phase,
                   audioSupported, halted, audioHist,
                   adapter>>

----------------------------------------------------------------------------
(* ROM loading and reset *)

\* loadRom(file) up to the await of file.arrayBuffer().
loadRom(f) ==
    IF ~IsNesName(FileName(f))
    THEN /\ status' = "PleaseSelectNes"
         /\ UNCHANGED <<loadedName, pendingReads>>
    ELSE /\ f \notin pendingReads
         /\ status' = "LoadingRom"
         /\ loadedName' = EmptyName
         /\ pendingReads' = pendingReads \cup {f}

\* The file input: onChange={(e) => loadRom(e.target.files?.[0])}
LoadRom ==
    /\ Quiet /\ phase = "mounted"
    /\ \E f \in Files : loadRom(f)
    /\ UNCHANGED <<loopVars, rafFiring, tickFrames, nesRef, romVars, audioDev,
                   audioQRef, timerVars, store, saveUi, phase, audioSupported,
                   halted, audioHist,
                   adapter>>

\* The try block of loadRom without its stop() call.
loadRomAfterReadNoStop(f, k) ==
    LET bin == FileBytes(f)
        name == FileName(f)
        key == KeyOfFile[f]
        n == createNES(FreshEngineId)
        one == drawOneFrame(EngineLoadROM(n, bin), <<>>, k)
        ind == refreshSaveIndicators(StorageKey(key))
        has == store[StorageKey(key)] # None
    IN
    /\ romBinRef' = bin
    /\ romNameRef' = name
    /\ romKeyRef' = key
    /\ IF ~RomValid(bin)
       THEN /\ nesRef' = n
            /\ status' = SetState(status, "FailedToLoadRom")
            /\ UNCHANGED <<loopVars, audioQRef, timerVars, loadedName, saveUi,
                           halted>>
       ELSE /\ nesRef' = one.nes
            /\ audioQRef' = one.q
            /\ loadedName' = SetState(loadedName, name)
            /\ startAutosaveTimer
            /\ UNCHANGED loopVars
            /\ halted' = Halted
            /\ hasSave' = SetState(hasSave, ind)
            /\ status' = SetState(status, IF has THEN "SaveFound" ELSE "Loaded")

\* loadRom(file) after the await: the try block.
loadRomAfterRead(f, k) ==
    LET bin == FileBytes(f)
        name == FileName(f)
        key == KeyOfFile[f]
        n == createNES(FreshEngineId)
        one == drawOneFrame(EngineLoadROM(n, bin), <<>>, k)
        ind == refreshSaveIndicators(StorageKey(key))
        has == store[StorageKey(key)] # None
    IN
    /\ romBinRef' = bin
    /\ romNameRef' = name
    /\ romKeyRef' = key
    /\ IF ~RomValid(bin)
       THEN /\ nesRef' = n
            /\ status' = SetState(status, "FailedToLoadRom")
            /\ UNCHANGED <<loopVars, audioQRef, timerVars, loadedName, saveUi,
                           halted>>
       ELSE /\ nesRef' = one.nes
            /\ audioQRef' = one.q
            /\ loadedName' = SetState(loadedName, name)
            /\ startAutosaveTimer
            /\ stop
            /\ halted' = Halted
            /\ hasSave' = SetState(hasSave, ind)
            /\ status' = SetState(status, IF has THEN "SaveFound" ELSE "Loaded")

LoadRomComplete ==
    /\ Quiet
    /\ \E f \in pendingReads, k \in 0..MaxPairsPerFrame :
          /\ pendingReads' = pendingReads \ {f}
          /\ loadRomAfterRead(f, k)
    /\ UNCHANGED <<rafFiring, tickFrames, audioDev, store, phase,
                   audioSupported, audioHist,
                   adapter>>

\* file.arrayBuffer() rejects: the async function ends at the await.
LoadRomReadFails ==
    /\ Quiet
    /\ \E f \in pendingReads : pendingReads' = pendingReads \ {f}
    /\ UNCHANGED <<loopVars, rafFiring, tickFrames, nesRef, romVars, audioDev,
                   audioQRef, timerVars, store, status, loadedName, saveUi,
                   phase, audioSupported, halted, audioHist,
                   adapter>>

\* reset()
reset(k) ==
    LET n == createNES(FreshEngineId)
        one == drawOneFrame(EngineLoadROM(n, romBinRef), <<>>, k)
    IN
    IF romBinRef = None
    THEN /\ status' = "NoRomToReset"
         /\ UNCHANGED <<loopVars, nesRef, audioQRef, loadedName, halted>>
    ELSE /\ stop
         /\ halted' = Halted
         /\ IF ~RomValid(romBinRef)
            THEN \* loadROM throws out of the handler
                 /\ nesRef' = n
                 /\ audioQRef' = <<>>
                 /\ UNCHANGED <<status, loadedName>>
            ELSE /\ nesRef' = one.nes
                 /\ audioQRef' = one.q
                 /\ loadedName' = IF romNameRef # EmptyName
                                  THEN romNameRef ELSE loadedName
                 /\ status' = "ResetComplete"

\* The Reset button (disabled while no ROM name is shown).
Reset ==
    /\ Quiet /\ phase = "mounted"
    /\ loadedName # EmptyName
    /\ \E k \in 0..MaxPairsPerFrame : reset(k)
    /\ UNCHANGED <<rafFiring, tickFrames, romVars, audioDev, timerVars, store,
                   saveUi, pendingReads, phase, audioSupported, audioHist,
                   adapter>>

----------------------------------------------------------------------------
(* Engine adapter: press, exportState and importState try the method       *)
(* shapes a jsnes build may have.  A build gives each candidate as         *)
(* "absent", "works" or "throws".                                          *)

Ops == {"press", "export", "import"}

\* The candidates of each operation, in the order the code tries them.
Candidates(op) ==
    CASE op = "press" ->
            <<"controllers[0]", "controller1", "buttonDown(0, btn)",
              "buttonDown(1, btn)">>
      [] op = "export" -> <<"toJSON", "serialize", "saveState", "getState">>
      [] op = "import" -> <<"fromJSON", "deserialize", "loadState",
                            "setState">>

Kinds == {"absent", "works", "throws"}

\* The builds tried; the last two candidates of press are the same pair of
\* methods, so they exist together.
Shapes(op) ==
    {sh \in [DOMAIN Candidates(op) -> Kinds] :
        op = "press" => ((sh[3] = "absent") <=> (sh[4] = "absent"))}

\* press(key, isDown) from attempt i on: each attempt runs in a try; one
\* that returns true ends the loop.
RECURSIVE pressFrom(_, _, _)
pressFrom(sh, i, invoked) ==
    IF i > Len(sh) THEN [invoked |-> invoked, outcome |-> "nothing"]
    ELSE IF sh[i] = "absent" THEN pressFrom(sh, i + 1, invoked)
    ELSE IF sh[i] = "works"
         THEN [invoked |-> Append(invoked, i), outcome |-> "done"]
         ELSE pressFrom(sh, i + 1, Append(invoked, i))

press(sh) == pressFrom(sh, 1, <<>>)

\* exportState / importState from candidate i on: the first method that
\* exists is called and its result (or its exception) is the result.
RECURSIVE stateApiFrom(_, _, _)
stateApiFrom(sh, i, missing) ==
    IF i > Len(sh) THEN [invoked |-> <<>>, outcome |-> missing]
    ELSE IF sh[i] = "absent" THEN stateApiFrom(sh, i + 1, missing)
    ELSE [invoked |-> <<i>>,
          outcome |-> IF sh[i] = "works" THEN "done" ELSE "engineError"]

\* exportState on a build: throws "This jsnes build does not expose a
\* save-state API." when no method exists.
exportStateOn(sh) == stateApiFrom(sh, 1, "NoSaveStateApi")

\* importState on a build: throws "This jsnes build does not expose a
\* load-state API." when no method exists.
importStateOn(sh) == stateApiFrom(sh, 1, "NoLoadStateApi")

\* No adapter call is followed (the session specifications).
NoProbe == [op |-> "none", shape |-> <<>>, invoked |-> <<>>,
            outcome |-> "none"]

AdapterCall(op, r) ==
    /\ adapter.op = op /\ adapter.outcome = "pending"
    /\ adapter' = [adapter EXCEPT !.invoked = r.invoked,
                                  !.outcome = r.outcome]
    /\ UNCHANGED <<SessionVars, tickFrames, audioSupported, halted,
                   audioHist>>

AdapterPress == AdapterCall("press", press(adapter.shape))

AdapterExport == AdapterCall("export", exportStateOn(adapter.shape))

AdapterImport == AdapterCall("import", importStateOn(adapter.shape))

----------------------------------------------------------------------------
(* Audio device, teardown, page exit *)

\* The device calls node.onaudioprocess.
AudioPull ==
    /\ Quiet
    /\ connectedNodes > 0
    /\ audioQRef' = onaudioprocess(audioQRef, bufferSize).q
    /\ UNCHANGED <<loopVars, rafFiring, tickFrames, nesRef, romVars, audioDev,
                   timerVars, store, status, loadedName, saveUi, pendingReads,
                   phase, audioSupported, halted, audioHist,
                   adapter>>

\* The cleanup of the mount effect.
Teardown ==
    /\ Quiet /\ phase = "mounted"
    /\ stop
    /\ halted' = Halted
    /\ intervals' = stopAutosaveTimer
    /\ autosaveTimerRef' = 0
    /\ connectedNodes' = IF audioNodeRef # NULL
                         THEN connectedNodes - 1 ELSE connectedNodes
    /\ audioNodeRef' = NULL
    /\ audioCtxRef' = NULL
    /\ audioQRef' = <<>>
    /\ phase' = "unmounted"
    /\ UNCHANGED <<rafFiring, tickFrames, nesRef, romVars, store, status,
                   loadedName, saveUi, pendingReads, audioSupported, audioHist,
                   adapter>>

\* The beforeunload listener.  The model does not follow the page past it:
\* what can happen afterwards is a subset of what happens if the page stays.
BeforeUnload ==
    /\ Quiet /\ phase = "mounted"
    /\ IF romBinRef # None /\ romKeyRef # None
       THEN \E exportOk \in BOOLEAN, writeOk \in BOOLEAN :
               saveStateToLocalStorage(TRUE, exportOk, writeOk)
       ELSE /\ UNCHANGED <<store, saveUi, status>>
    /\ UNCHANGED <<loopVars, rafFiring, tickFrames, nesRef, romVars, audioDev,
                   audioQRef, timerVars, loadedName, pendingReads, phase,
                   audioSupported, halted, audioHist,
                   adapter>>

----------------------------------------------------------------------------
(* Initial state: the first render and the mount effect *)

EmptyStore == [key \in StoreKeys |-> None]

KeyA == KeyOfFile["A"]

KeyX == KeyOfFile["X"]

SnapshotOf(f, st) == [rom |-> FileBytes(f), st |-> st, ok |-> TRUE]

\* Stores the page may find, holding what an earlier session, another build
\* of the page or other code of the origin left under the save-state keys:
\* an envelope without a state and text that is not JSON; a state payload
\* the engine rejects; an envelope of a later format version.
FoundStore1 ==
    [EmptyStore EXCEPT
       ![StorageKey(KeyA)] =
           Some(JSONstringify([meta |-> None, state |-> None])),
       ![StorageKey(KeyX)] = Some(Garbage)]

FoundStore2 ==
    [EmptyStore EXCEPT
       ![StorageKey(KeyA)] =
           Some(JSONstringify(Envelope(SAVE_VERSION, FileName("A"), KeyA,
                                       BadBlob)))]

FoundStore3 ==
    [EmptyStore EXCEPT
       ![StorageKey(KeyA)] =
           Some(JSONstringify(Envelope(SAVE_VERSION + 1, FileName("A"), KeyA,
                                       SnapshotOf("A", 1))))]

InitCommon ==
    /\ runningRef = FALSE
    /\ rafRef = 0
    /\ rafPending = {}
    /\ rafFiring = {}
    /\ tickFrames = 0
    /\ nesRef = createNES(1)
    /\ romBinRef = None
    /\ romNameRef = EmptyName
    /\ romKeyRef = None
    /\ audioQRef = <<>>
    /\ autosaveTimerRef = 0
    /\ intervals = {}
    /\ status = "Upload"
    /\ loadedName = EmptyName
    /\ hasSave = FALSE
    /\ pendingReads = {}
    /\ phase = "mounted"
    /\ halted = "no"
    /\ produced = 0
    /\ pulled = 0

\* The environments explored: what the store holds and whether the browser
\* has an AudioContext.
Init ==
    /\ InitCommon
    /\ adapter = NoProbe
    /\ audioCtxRef = NULL
    /\ audioNodeRef = NULL
    /\ connectedNodes = 0
    /\ \/ store = FoundStore1 /\ audioSupported = FALSE
       \/ store = FoundStore2 /\ audioSupported = TRUE
       \/ store = FoundStore3 /\ audioSupported = TRUE

Next ==
    \/ Play
    \/ Pause
    \/ BeginRefresh
    \/ RafCallback
    \/ LoadRom
    \/ LoadRomComplete
    \/ LoadRomReadFails
    \/ Reset
    \/ SaveState
    \/ LoadState
    \/ DeleteState
    \/ AutosaveTick
    \/ AudioPull
    \/ Teardown
    \/ BeforeUnload

Spec == Init /\ [][Next]_vars

----------------------------------------------------------------------------
(* The audio bridge on its own: the engine produces sample pairs at any    *)
(* rate, the device pulls at any rate.  A sample is tagged with its        *)
(* production number, so the queue shows which samples it kept.            *)

\* Sample pairs in a burst of ten times the cap.
Burst == (10 * max) \div 2

\* The engine calls onAudioSample(l, r).
AudioEnqueue ==
    /\ produced < Burst
    /\ produced' = produced + 1
    /\ audioQRef' = onAudioSample(audioQRef, <<produced + 1, "L">>,
                                            <<produced + 1, "R">>)
    /\ UNCHANGED <<loopVars, rafFiring, tickFrames, nesRef, romVars, audioDev,
                   timerVars, store, status, loadedName, saveUi, pendingReads,
                   phase, audioSupported, halted, pulled, adapter>>

\* The device calls node.onaudioprocess.
AudioDevicePull ==
    /\ pulled < MaxPulls
    /\ pulled' = pulled + 1
    /\ audioQRef' = onaudioprocess(audioQRef, bufferSize).q
    /\ UNCHANGED <<loopVars, rafFiring, tickFrames, nesRef, romVars, audioDev,
                   timerVars, store, status, loadedName, saveUi, pendingReads,
                   phase, audioSupported, halted, produced, adapter>>

\* After ensureAudio() has connected the node, with an empty queue.
InitAudio ==
    /\ InitCommon
    /\ adapter = NoProbe
    /\ audioCtxRef = "ctx"
    /\ audioNodeRef = "node"
    /\ connectedNodes = 1
    /\ store = EmptyStore
    /\ audioSupported = TRUE

NextAudio ==
    \/ AudioEnqueue
    \/ AudioDevicePull

SpecAudio == InitAudio /\ [][NextAudio]_vars

\* audioQRef.current = []: the clear done by loadRom, load, reset and the
\* cleanup, taken alone.
AudioClear ==
    /\ audioQRef' = <<>>
    /\ UNCHANGED <<loopVars, rafFiring, tickFrames, nesRef, romVars, audioDev,
                   timerVars, store, status, loadedName, saveUi, pendingReads,
                   phase, audioSupported, halted, audioHist, adapter>>

\* Every operation the code has on the queue, in any order.
NextQueue ==
    \/ AudioEnqueue
    \/ AudioDevicePull
    \/ AudioClear

SpecQueue == InitAudio /\ [][NextQueue]_vars

----------------------------------------------------------------------------
(* The session with the save-state operations also called directly, in     *)
(* any state of the mounted component, whatever the buttons allow.         *)

\* saveStateToLocalStorage({silent}) called directly.
SaveCall ==
    /\ Quiet /\ phase = "mounted"
    /\ \E silent \in BOOLEAN, exportOk \in BOOLEAN, writeOk \in BOOLEAN :
          saveStateToLocalStorage(silent, exportOk, writeOk)
    /\ UNCHANGED <<loopVars, rafFiring, tickFrames, nesRef, romVars, audioDev,
                   audioQRef, timerVars, loadedName, pendingReads, phase,
                   audioSupported, halted, audioHist, adapter>>

\* loadStateFromLocalStorage() called directly.
LoadCall ==
    /\ Quiet /\ phase = "mounted"
    /\ LET raw == store[getSaveStorageKey] IN
         (/\ getSaveStorageKey # None /\ raw # None /\ Get(raw).json
          /\ Get(Get(raw).value).state # None
          /\ Get(Get(Get(raw).value).state).ok)
            => Get(Get(Get(raw).value).state).st < MaxSt
    /\ \E k \in 0..MaxPairsPerFrame : loadStateFromLocalStorage(k)
    /\ UNCHANGED <<rafFiring, tickFrames, romVars, audioDev, timerVars, store,
                   loadedName, saveUi, pendingReads, phase, audioSupported,
                   audioHist, adapter>>

\* deleteStateFromLocalStorage() called directly.
DeleteCall ==
    /\ Quiet /\ phase = "mounted"
    /\ deleteStateFromLocalStorage
    /\ UNCHANGED <<loopVars, rafFiring, tickFrames, nesRef, romVars, audioDev,
                   audioQRef, timerVars, loadedName, pendingReads, phase,
                   audioSupported, halted, audioHist, adapter>>

NextDirect ==
    \/ Next
    \/ SaveCall
    \/ LoadCall
    \/ DeleteCall

SpecDirect == Init /\ [][NextDirect]_vars

----------------------------------------------------------------------------
(* The engine adapter on its own: one call on each build. *)

InitAdapter ==
    /\ InitCommon
    /\ audioCtxRef = NULL
    /\ audioNodeRef = NULL
    /\ connectedNodes = 0
    /\ store = EmptyStore
    /\ audioSupported = TRUE
    /\ \E op \in Ops :
          \E sh \in Shapes(op) :
             adapter = [op |-> op, shape |-> sh, invoked |-> <<>>,
                        outcome |-> "pending"]

NextAdapter ==
    \/ AdapterPress
    \/ AdapterExport
    \/ AdapterImport

SpecAdapter == InitAdapter /\ [][NextAdapter]_vars

----------------------------------------------------------------------------
(* Properties of the frame loop *)

\* C1: a frame-loop callback advances the engine only while runningRef is
\* set and no stop() call (by pause, reset, load or loadRom) has happened
\* since the last play() that started the loop.
NoFrameWhileStopped ==
    [][(RafCallback /\ nesRef' # nesRef)
          => (runningRef /\ halted = "no")]_vars

\* The Pause button stopped a loop that had advanced the engine.
StoppedAfterRunning ==
    /\ halted = "wasRunning" /\ status = "Playing"
    /\ ~runningRef /\ rafPending = {} /\ rafFiring = {}
    /\ nesRef.st >= 2

\* C2: whatever the handlers called, at most one continuation of the loop
\* is scheduled, and the callbacks of one display refresh advance the
\* engine at most one frame.
AtMostOneContinuation ==
    [][/\ Cardinality(rafPending' \cup rafFiring') <= 1
       /\ (RafCallback /\ nesRef' # nesRef) => tickFrames = 0]_vars

\* play() ran after a stop() that cancelled a continuation, before any
\* display refresh.
ResumedBeforeRefresh ==
    /\ halted = "resumed" /\ runningRef
    /\ rafPending = {rafRef} /\ rafFiring = {}

\* C4: play() while the loop runs leaves the loop, the engine and the audio
\* device alone; with no ROM name and no loop it reports "Load a ROM first"
\* and leaves the loop stopped; otherwise it sets up the audio device where
\* the browser has one, sets runningRef and schedules the loop.
PlayByRunState ==
    [][Play =>
         /\ runningRef
               => UNCHANGED <<loopVars, nesRef, audioQRef, audioDev>>
         /\ (~runningRef /\ loadedName = EmptyName)
               => /\ status' = "LoadRomFirst"
                  /\ UNCHANGED <<loopVars, nesRef, audioQRef, audioDev,
                                 loadedName>>
         /\ (~runningRef /\ loadedName # EmptyName)
               => /\ runningRef' /\ status' = "Playing"
                  /\ rafPending' = {rafRef'}
                  /\ audioSupported
                        => (audioCtxRef' # NULL /\ audioNodeRef' # NULL
                            /\ connectedNodes' = 1)]_vars

\* play() was called while the loop ran (it reported the missing audio
\* device again) and one continuation is scheduled.
PlayedWhileRunning ==
    /\ runningRef /\ status = "AudioNotSupported"
    /\ rafPending = {rafRef} /\ loadedName # EmptyName

\* C8: the Pause button leaves the loop stopped with nothing scheduled and
\* changes nothing else; pressed with the loop already stopped it changes
\* nothing at all.
PauseOnlyStopsLoop ==
    [][Pause =>
         /\ ~runningRef' /\ rafRef' = 0 /\ rafPending' = {}
         /\ UNCHANGED <<nesRef, romVars, audioQRef, audioDev, timerVars,
                        store, status, loadedName, saveUi, pendingReads>>
         /\ (~runningRef /\ rafRef = 0) => UNCHANGED SessionVars]_vars

\* Pause was pressed on a running loop and then once more, with samples
\* queued.
PausedTwice ==
    /\ halted = "wasStopped" /\ status = "Playing" /\ phase = "mounted"
    /\ nesRef.rom # None /\ audioQRef # <<>>

----------------------------------------------------------------------------
(* Properties of the audio queue (SpecAudio) *)

\* C3: the queue never holds more than max samples; it holds the most
\* recently produced pairs, oldest first; and with no device pull its
\* length is the number of samples produced, or max once more than max were
\* produced.
QueueKeepsNewest ==
    LET n == Len(audioQRef) \div 2 IN
    /\ Len(audioQRef) <= max
    /\ Len(audioQRef) = 2 * n
    /\ n <= produced
    /\ \A j \in 1..n :
          /\ audioQRef[2 * j - 1] = <<produced - n + j, "L">>
          /\ audioQRef[2 * j] = <<produced - n + j, "R">>
    /\ pulled = 0
          => Len(audioQRef) = IF 2 * produced > max THEN max
                              ELSE 2 * produced

\* The whole burst was produced with no pull.
BurstWithoutPull ==
    /\ produced = Burst /\ pulled = 0
    /\ Len(audioQRef) = max
    /\ audioQRef[1] = <<Burst - (max \div 2) + 1, "L">>

----------------------------------------------------------------------------
(* Properties of ROM loading and reset *)

\* Name, length and hash of each file.
NameLengthHash ==
    [f \in Files |->
        <<FileName(f), Len(FileBytes(f)), djb2Hash(FileBytes(f))>>]

\* C5: when loadRom finishes on a file the engine accepts, the engine is a
\* new instance running that file's bytes, the ROM image, name and key are
\* those of the file, the loop is stopped with nothing scheduled, and (the
\* component being mounted) the status is the save-found hint exactly when
\* the store holds a record under the file's key.
LoadRomBindsNewRom ==
    [][\A f \in Files :
         (f \in pendingReads /\ f \notin pendingReads'
            /\ RomValid(FileBytes(f)) /\ LoadRomComplete)
         => /\ nesRef'.id # nesRef.id
            /\ nesRef'.rom = FileBytes(f)
            /\ nesRef'.st = 1
            /\ romBinRef' = FileBytes(f)
            /\ romNameRef' = FileName(f)
            /\ romKeyRef' = NameLengthHash[f]
            /\ ~runningRef' /\ rafRef' = 0 /\ rafPending' = {}
            /\ phase = "mounted"
                  => /\ loadedName' = FileName(f)
                     /\ status' = "SaveFound"
                           <=> store[StorageKey(romKeyRef')] # None]_vars

\* A ROM was loaded while the loop ran on the previous one, and a save was
\* found for it.
LoadedOverRunning ==
    /\ halted = "wasRunning" /\ status = "SaveFound"
    /\ ~runningRef /\ nesRef.rom = FileBytes("A") /\ nesRef.st = 1

\* The name ends in .nes, in any mix of upper and lower case.
EndsInDotNes(name) ==
    /\ Len(name) >= 4
    /\ name[Len(name) - 3] = "."
    /\ name[Len(name) - 2] \in {"n", "N"}
    /\ name[Len(name) - 1] \in {"e", "E"}
    /\ name[Len(name)] \in {"s", "S"}

\* C6: loadRom on a file whose name does not end in .nes reports "Please
\* select a .nes ROM file" and changes nothing else: not the loop, the
\* shown name, the engine, the ROM image and key, the audio queue, the
\* autosave timer, the store or the reads in flight.
BadNameChangesNothing ==
    [][\A f \in Files :
         (~EndsInDotNes(FileName(f)) /\ loadRom(f) /\ LoadRom)
         => /\ status' = "PleaseSelectNes"
            /\ UNCHANGED <<loopVars, loadedName, nesRef, romVars, audioQRef,
                           audioDev, timerVars, store, saveUi,
                           pendingReads>>]_vars

\* A file without the extension was refused while the loop ran on a ROM.
RefusedWhileRunning ==
    /\ status = "PleaseSelectNes" /\ runningRef
    /\ romKeyRef # None /\ intervals # {}

\* C7: a reset() whose loadROM succeeds leaves the loop stopped with
\* nothing scheduled, a new engine instance running the retained ROM image
\* and advanced exactly one frame (as loadRom leaves it), the ROM image,
\* name and key as they were, and only samples of the new instance queued.
ResetColdBoots ==
    [][(Reset /\ RomValid(romBinRef))
         => /\ ~runningRef' /\ rafRef' = 0 /\ rafPending' = {}
            /\ nesRef'.id # nesRef.id
            /\ nesRef'.rom = romBinRef
            /\ nesRef'.st = 1
            /\ UNCHANGED romVars
            /\ status' = "ResetComplete"
            /\ \A i \in 1..Len(audioQRef') :
                  audioQRef'[i][1] = nesRef'.id]_vars

\* Reset was pressed while the loop ran.
ResetWhileRunning ==
    /\ halted = "wasRunning" /\ status = "ResetComplete"
    /\ ~runningRef /\ nesRef.st = 1 /\ nesRef.rom = romBinRef

----------------------------------------------------------------------------
(* Properties of save and load *)

\* The store holds, under the current key, what save would write now.
SavedNow ==
    /\ getSaveStorageKey # None
    /\ store[getSaveStorageKey] =
          Some(JSONstringify(Envelope(SAVE_VERSION, romNameRef, romKeyRef,
                                      exportState(nesRef))))

\* The frames an engine at (rom, st) renders next, first of them frame
\* st + 1.
FramesAfter(rom, st, N) == [i \in 1..N |-> [rom |-> rom, st |-> st + i]]

FailedLoadChangesNothing ==
    [][(LoadState /\ status' \in {"NoSaveFound", "LoadFailed", "SaveInvalid"})
         => UNCHANGED <<runningRef, rafRef, rafPending, nesRef,
                        audioQRef>>]_vars

----------------------------------------------------------------------------
(* Properties of the engine adapter (SpecAdapter) *)

\* C19: a call on a build that has none of the candidates ends with an
\* error naming the missing capability.
AbsentCandidatesReported ==
    (/\ adapter.op \in Ops /\ adapter.outcome # "pending"
     /\ \A i \in DOMAIN adapter.shape : adapter.shape[i] = "absent")
       => adapter.outcome \in {"NoButtonApi", "NoSaveStateApi",
                               "NoLoadStateApi"}

\* The candidates up to m that exist, in order.
ExistingUpTo(sh, m) ==
    SelectSeq([i \in DOMAIN sh |-> i],
              LAMBDA i : i <= m /\ sh[i] # "absent")

\* C20: a call invokes, in order, the candidates that exist up to and
\* including the first one that works and no other; it succeeds exactly
\* when some candidate works.
FirstWorkingCandidateUsed ==
    (adapter.op \in Ops /\ adapter.outcome # "pending")
       => LET sh == adapter.shape
              works == {i \in DOMAIN sh : sh[i] = "works"}
          IN  IF works = {}
              THEN /\ adapter.invoked = ExistingUpTo(sh, Len(sh))
                   /\ adapter.outcome # "done"
              ELSE /\ adapter.invoked = ExistingUpTo(sh, Smallest(works))
                   /\ adapter.outcome = "done"

----------------------------------------------------------------------------
(* Properties of load *)

\* The store holds a parseable record under the current key.
HasParsedRecord ==
    /\ getSaveStorageKey # None
    /\ store[getSaveStorageKey] # None
    /\ Get(store[getSaveStorageKey]).json

StoredEnvelope == Get(Get(store[getSaveStorageKey]).value)

\* C11: a load of a record whose meta.version is above SAVE_VERSION reports
\* an unsupported version and leaves the engine as it was.
HigherVersionRefused ==
    [][(/\ LoadState /\ HasParsedRecord
        /\ StoredEnvelope.meta # None
        /\ Get(StoredEnvelope.meta).version > SAVE_VERSION)
         => (status' = "UnsupportedSaveVersion" /\ UNCHANGED nesRef)]_vars

\* The record under the current key has a state the engine accepts, and the
\* retained ROM image loads.
LoadWillSucceed ==
    /\ HasParsedRecord
    /\ StoredEnvelope.state # None
    /\ Get(StoredEnvelope.state).ok
    /\ RomValid(romBinRef)

\* C12: a load that succeeds leaves the loop stopped with nothing
\* scheduled, a new engine instance running the retained ROM image at the
\* stored state advanced exactly one frame, only samples of that frame in
\* the audio queue, and the store and the bound ROM as they were.
LoadReplacesEngine ==
    [][(LoadState /\ LoadWillSucceed)
         => /\ ~runningRef' /\ rafRef' = 0 /\ rafPending' = {}
            /\ nesRef'.id # nesRef.id
            /\ nesRef'.rom = romBinRef
            /\ nesRef'.st = Get(StoredEnvelope.state).st + 1
            /\ Len(audioQRef') <= 2 * MaxPairsPerFrame
            /\ \A i \in 1..Len(audioQRef') : audioQRef'[i][1] = nesRef'.id
            /\ status' = "LoadedSave"
            /\ UNCHANGED <<store, romVars>>]_vars

\* A save was loaded while the loop ran.
LoadedWhileRunning ==
    /\ status = "LoadedSave" /\ halted = "wasRunning"
    /\ ~runningRef /\ rafPending = {} /\ nesRef.rom = romBinRef

----------------------------------------------------------------------------
\* A step of any caller of saveStateToLocalStorage.
SaveStep == SaveCall \/ SaveState \/ AutosaveTick \/ BeforeUnload

\* C13: while no ROM key is bound, a save, manual or silent, returns failure
\* without throwing and leaves the persisted store as it was; only the manual
\* one reports it, as the "load a ROM before saving" status.
NoKeySaveFails ==
    [][(romKeyRef = None /\ SaveStep) =>
          /\ store' = store
          /\ hasSave' = hasSave
          /\ status' \in {status, "LoadRomBeforeSaving"}
          /\ \A exportOk \in BOOLEAN, writeOk \in BOOLEAN :
                /\ ~saveResult(exportOk, writeOk).returns
                /\ ~saveResult(exportOk, writeOk).threw]_vars

\* A manual save was refused for want of a ROM while records of earlier
\* sessions are persisted.
SaveRefusedWithoutRom ==
    /\ status = "LoadRomBeforeSaving"
    /\ romKeyRef = None
    /\ \E k \in DOMAIN store : store[k] # None

----------------------------------------------------------------------------
\* A step of the two silent callers: the autosave interval and beforeunload.
SilentSaveStep == AutosaveTick \/ BeforeUnload

\* What a save writes for the engine and ROM of the current state.
RecordOfNow ==
    Some(JSONstringify(Envelope(SAVE_VERSION, romNameRef, romKeyRef,
                                exportState(nesRef))))

\* C14: a silent save never throws and never touches the status line, the
\* run state or the engine; when export or the write fails it returns
\* failure and the persisted records and the save indicator stay as they
\* were, and the only change a silent save ever makes to the store is the
\* complete record of a save that succeeded.
SilentSaveContained ==
    [][SilentSaveStep =>
          /\ status' = status
          /\ UNCHANGED <<loopVars, nesRef, audioQRef, romVars, timerVars,
                         loadedName, phase>>
          /\ \/ store' = store /\ hasSave' = hasSave
             \/ /\ getSaveStorageKey # None
                /\ store' = [store EXCEPT ![getSaveStorageKey] = RecordOfNow]
          /\ \A exportOk \in BOOLEAN, writeOk \in BOOLEAN :
                /\ ~saveResult(exportOk, writeOk).threw
                /\ ~(exportOk /\ writeOk) =>
                      /\ ~saveResult(exportOk, writeOk).returns
                      /\ saveStateToLocalStorage(TRUE, exportOk, writeOk) =>
                            UNCHANGED <<store, hasSave, status>>]_vars

\* The state a failed autosave leaves, which is the state it found: the
\* loop running with the timer active, and the record persisted for the
\* bound ROM still the one of an earlier frame.
StaleRecordWhileRunning ==
    /\ runningRef /\ intervals # {} /\ phase = "mounted"
    /\ romBinRef # None /\ getSaveStorageKey # None
    /\ store[getSaveStorageKey] # None
    /\ store[getSaveStorageKey] # RecordOfNow
    /\ hasSave /\ status = "Playing"

----------------------------------------------------------------------------
\* C16 (every step of the Delete Save and Load Save buttons is a step of
\* DeleteCall and LoadCall): a delete with a ROM key bound reports success and leaves the store
\* as it was except that the key has no record, whether or not it had one
\* (so a second delete changes nothing and fails no more than the first);
\* without a key it does nothing; and a load while the key has no record
\* reports that no save was found and changes nothing else.
DeleteIsIdempotent ==
    /\ [][DeleteCall =>
            /\ UNCHANGED <<loopVars, nesRef, audioQRef, romVars>>
            /\ IF romKeyRef = None
               THEN UNCHANGED <<store, status, hasSave>>
               ELSE /\ store' = [store EXCEPT ![StorageKey(romKeyRef)] = None]
                    /\ status' = "Deleted"
                    /\ ~hasSave']_vars
    /\ [][(/\ romKeyRef # None
           /\ store[StorageKey(romKeyRef)] = None
           /\ LoadCall) =>
            /\ status' = "NoSaveFound"
            /\ UNCHANGED <<store, loopVars, nesRef, audioQRef, romVars>>]_vars

\* The record found for a.nes at start is gone, a load of it has found no
\* save, and the record under the other key is still there.
LoadAfterDeleteFindsNothing ==
    /\ romKeyRef = KeyA
    /\ store[StorageKey(KeyA)] = None
    /\ store[StorageKey(KeyX)] # None
    /\ status = "NoSaveFound" /\ ~hasSave

----------------------------------------------------------------------------
\* C17: at no time is more than one device callback node connected; a node
\* is connected only by a play() that finds no audio context, together with
\* the context it creates; and an existing context and node are given up
\* only at teardown.
AudioInitOnce ==
    /\ [](connectedNodes <= 1)
    /\ [][connectedNodes' > connectedNodes =>
            /\ audioCtxRef = NULL /\ connectedNodes = 0
            /\ audioCtxRef' # NULL /\ audioNodeRef' # NULL
            /\ connectedNodes' = 1
            /\ Play]_vars
    /\ [][(audioCtxRef # NULL /\ (audioCtxRef' # audioCtxRef
                                  \/ audioNodeRef' # audioNodeRef
                                  \/ connectedNodes' # connectedNodes)) =>
            (phase = "mounted" /\ phase' = "unmounted")]_vars

\* play() has been called again after a halt of the running loop, with a
\* reset, load or loadRom in between, and still one node is connected.
PlayedAgainOneNode ==
    /\ halted = "resumed" /\ runningRef
    /\ nesRef.id >= 3
    /\ connectedNodes = 1 /\ audioCtxRef # NULL /\ audioNodeRef # NULL

----------------------------------------------------------------------------
\* The largest output buffer the pull is examined with.
MaxFrames == bufferSize + 2

\* The output frames a pull of n frames fills from queued pairs.
Taken(q, n) == IF n <= Len(q) \div 2 THEN n ELSE Len(q) \div 2

\* C18: on every queue the session can hold and for every length of the
\* output buffer, the device callback returns a value; frame i carries the
\* i-th oldest queued pair, left then right, while pairs remain, and
\* silence from there on; and the queue it leaves is the old one without
\* the samples emitted, which is what a device pull does to the queue.
PullEmitsOldestOrSilence ==
    /\ [](\A n \in 0..MaxFrames :
            LET r == onaudioprocess(audioQRef, n)
                t == Taken(audioQRef, n)
            IN  /\ Len(r.outL) = n /\ Len(r.outR) = n
                /\ \A i \in 1..n :
                      IF i <= t
                      THEN /\ r.outL[i] = audioQRef[2 * i - 1]
                           /\ r.outR[i] = audioQRef[2 * i]
                      ELSE /\ r.outL[i] = Silence
                           /\ r.outR[i] = Silence
                /\ r.q = SubSeq(audioQRef, 2 * t + 1, Len(audioQRef)))
    /\ [][AudioDevicePull =>
            audioQRef' = SubSeq(audioQRef,
                                2 * Taken(audioQRef, bufferSize) + 1,
                                Len(audioQRef))]_vars

\* Of two pulls one found the only pair produced and took it, the other
\* found the queue empty.
PulledPairAndSilence ==
    /\ produced = 1 /\ pulled = 2
    /\ audioQRef = <<>>

----------------------------------------------------------------------------
(* Properties of teardown and of the binding of the ROM *)

\* C21: once the component is unmounted no frame-loop continuation, no
\* autosave interval and no connected audio node is registered, whatever
\* completes afterwards.
NothingRegisteredAfterTeardown ==
    phase = "unmounted" =>
       /\ rafPending = {} /\ rafFiring = {}
       /\ intervals = {}
       /\ connectedNodes = 0 /\ audioNodeRef = NULL

\* The displayed name, the retained image, name and key and the engine all
\* belong to file f.
AllBoundTo(f) ==
    /\ loadedName = FileName(f)
    /\ romBinRef = FileBytes(f)
    /\ romNameRef = FileName(f)
    /\ romKeyRef = KeyOfFile[f]
    /\ nesRef.rom = FileBytes(f)

AllUnset ==
    /\ loadedName = EmptyName
    /\ romBinRef = None
    /\ romNameRef = EmptyName
    /\ romKeyRef = None
    /\ nesRef.rom = None

\* C22: whenever no file read is pending, the displayed name, the retained
\* ROM image, name and key and the engine instance all refer to one ROM, or
\* all are unset.
RomBindingAgrees ==
    pendingReads = {} => (AllUnset \/ \E f \in NesFiles : AllBoundTo(f))

----------------------------------------------------------------------------
\* The snapshot inside a record written by save.
SnapshotIn(rec) == Get(Get(Get(rec).value).state)

\* C23: every record a step writes into the store stands under the key of
\* a ROM the engine accepts and holds a snapshot of an engine running that
\* ROM.
RecordsBelongToTheirRom ==
    [][\A key \in StoreKeys :
          (store'[key] # store[key] /\ store'[key] # None) =>
             \E f \in NesFiles :
                /\ key = StorageKey(KeyOfFile[f])
                /\ RomValid(FileBytes(f))
                /\ SnapshotIn(store'[key]).rom = FileBytes(f)]_vars

----------------------------------------------------------------------------
\* C24: under every interleaving of enqueue (truncating on overflow), device
\* pull and clear, the queue holds whole pairs: its length is even and each
\* pair is the left then the right sample of one instant, so a pull never
\* emits a right sample on the left channel.
QueueStaysPaired ==
    /\ Len(audioQRef) % 2 = 0
    /\ \A j \in 1..(Len(audioQRef) \div 2) :
          /\ audioQRef[2 * j - 1][2] = "L"
          /\ audioQRef[2 * j][2] = "R"
          /\ audioQRef[2 * j - 1][1] = audioQRef[2 * j][1]
    /\ LET r == onaudioprocess(audioQRef, bufferSize) IN
          \A i \in 1..bufferSize :
             /\ r.outL[i] = Silence \/ r.outL[i][2] = "L"
             /\ r.outR[i] = Silence \/ r.outR[i][2] = "R"

\* The whole burst was enqueued, far more than the queue holds, and the
\* queue is empty after a single pull: it was cleared in between.
EmptiedByClearAndPull ==
    /\ produced = Burst /\ pulled = 1
    /\ audioQRef = <<>>

============================================================================
